---- MODULE Spec2Model ----
(***************************************************************************)
(* Sparse univariate polynomials, sparse_polynomials/python:                *)
(*   with_2d_list.py  the ordered strategy: terms is a list of              *)
(*                    [coefficient, exponent] kept ascending by exponent    *)
(*   with_dict.py     the unordered strategy: terms is a dict               *)
(*                    exponent -> coefficient (insertion ordered)           *)
(*                                                                         *)
(* Representation.                                                          *)
(*   - A text is a sequence of one-character strings.                       *)
(*   - A coefficient is an integer count of tenths (Scale): 2.1 is 21,      *)
(*     40.0 is 400.  The texts of the model carry at most one fractional    *)
(*     digit and, apart from the example of the source, only the digits 0   *)
(*     and 5 there, which binary floating point adds exactly.               *)
(*   - A polynomial object is an identifier of the heap; heap[id] is the    *)
(*     object's terms container.  Program variables a, b, r refer to        *)
(*     objects through ref.  An ordered container is a sequence of          *)
(*     <<coefficient, exponent>>, an unordered one a sequence of            *)
(*     <<exponent, coefficient>> in the dict's insertion order.             *)
(*   - The inner [coefficient, exponent] lists of the ordered strategy are  *)
(*     created at line 58 only and are referenced by the one outer list     *)
(*     they were inserted into, so they are held by value.                  *)
(*   - re.split on an empty-width pattern follows Python 3.7 and later.     *)
(***************************************************************************)
EXTENDS Integers, Sequences, FiniteSets, TLC

\* ------------------------------------------------------------------ bounds
\* Exponents of direct add_term / find_coefficient calls: 0..MaxExp.
MaxExp == 2
\* Number of state-changing calls (add_term, add) in one run.
MaxSteps == 3
\* Number of monomials in a generated input text.
MaxTokens == 2

\* Decimal radix of float() and str(): one fractional digit is kept.
Scale == 10

\* Program variables: the operands a and b, and r = <operand> + <operand>.
Vars == {"a", "b", "r"}
Operands == {"a", "b"}
Exps == 0..MaxExp
\* Coefficients of direct add_term calls: -1.0, 0, 1.0 (sums run from
\* -MaxSteps to MaxSteps units).
Coefs == {-Scale, 0, Scale}
\* Evaluation points.
Points == {-1, 0, 1, 2}

\* ------------------------------------------------------------ text helpers
Digits == <<"0", "1", "2", "3", "4", "5", "6", "7", "8", "9">>

IsDigit(ch) == \E i \in 1..10 : Digits[i] = ch

DigitVal(ch) == (CHOOSE i \in 1..10 : Digits[i] = ch) - 1

IsSign(ch) == ch \in {"+", "-"}

\* s[from..] (1-based), empty when from is past the end.
Tail_(s, from) == SubSeq(s, from, Len(s))

\* Length of the longest run of digits of s starting at position from.
RECURSIVE DigitRun(_, _)
DigitRun(s, from) ==
    IF from <= Len(s) /\ IsDigit(s[from]) THEN 1 + DigitRun(s, from + 1) ELSE 0

\* int() of a non-empty digit string.
RECURSIVE IntOf(_)
IntOf(s) ==
    IF s = <<>> THEN 0
    ELSE IntOf(SubSeq(s, 1, Len(s) - 1)) * 10 + DigitVal(s[Len(s)])

\* str() of a non-negative int.
RECURSIVE NatStr(_)
NatStr(n) ==
    IF n < 10 THEN <<Digits[n + 1]>>
    ELSE NatStr(n \div 10) \o <<Digits[(n % 10) + 1]>>

\* 1 when s opens with a sign, else 0.
SignLen(s) == IF s # <<>> /\ IsSign(s[1]) THEN 1 ELSE 0

Signed(s, mag) == IF s # <<>> /\ s[1] = "-" THEN -mag ELSE mag

\* float() once the integer digits s[p0 .. p0+ni-1] and the nf fraction
\* digits are found; pend is the position after the number.
FloatVal(s, p0, ni, nf, pend) ==
    IF pend = Len(s) + 1 /\ ni + nf > 0
        THEN [ok |-> TRUE,
              val |-> Signed(s, IntOf(SubSeq(s, p0, p0 + ni - 1)) * Scale
                                   + (IF nf > 0 THEN DigitVal(s[p0 + ni + 1]) ELSE 0))]
        ELSE [ok |-> FALSE, val |-> 0]

FloatFrom(s, p0, ni) ==
    IF p0 + ni <= Len(s) /\ s[p0 + ni] = "."
        THEN FloatVal(s, p0, ni, DigitRun(s, p0 + ni + 1),
                      p0 + ni + 1 + DigitRun(s, p0 + ni + 1))
        ELSE FloatVal(s, p0, ni, 0, p0 + ni)

\* float(s): [ok, val] with val in tenths; not ok is Python's ValueError.
\* Grammar over the model's alphabet: [sign] (digits+ ["." digits*] | "." digits+).
FloatOf(s) == FloatFrom(s, 1 + SignLen(s), DigitRun(s, 1 + SignLen(s)))

\* str() of a float held in tenths: "-2.5", "40.0".
FloatStr(v) ==
    LET mag == IF v < 0 THEN -v ELSE v
    IN  (IF v < 0 THEN <<"-">> ELSE <<>>)
            \o NatStr(mag \div Scale) \o <<".">> \o <<Digits[(mag % Scale) + 1]>>

\* polynomial_str.replace(" ", "")
RemoveSpaces(s) == SelectSeq(s, LAMBDA ch : ch # " ")

\* term.strip()
RECURSIVE Strip(_)
Strip(s) ==
    IF s = <<>> THEN s
    ELSE IF s[1] = " " THEN Strip(Tail(s))
    ELSE IF s[Len(s)] = " " THEN Strip(SubSeq(s, 1, Len(s) - 1))
    ELSE s

\* re.split(r'(?=[-+])', s): cut before every sign; a leading sign leaves an
\* empty first piece, two adjacent signs a piece holding the first alone.
RECURSIVE SplitFrom(_, _, _)
SplitFrom(s, start, p) ==
    IF p > Len(s) THEN <<SubSeq(s, start, Len(s))>>
    ELSE IF IsSign(s[p]) THEN <<SubSeq(s, start, p - 1)>> \o SplitFrom(s, p, p + 1)
    ELSE SplitFrom(s, start, p + 1)

SplitBeforeSigns(s) == SplitFrom(s, 1, 1)

\* The position after (?:\.\d+)? tried at p1.
FracEnd(s, p1) ==
    IF p1 <= Len(s) /\ s[p1] = "." /\ DigitRun(s, p1 + 1) > 0
        THEN p1 + 1 + DigitRun(s, p1 + 1)
        ELSE p1

\* The position after [-+]?\d*(?:\.\d+)? tried at the start of s.
NumberEnd(s) == FracEnd(s, 1 + SignLen(s) + DigitRun(s, 1 + SignLen(s)))

\* (\d*) tried at p3.
ExpDigits(s, p3) == SubSeq(s, p3, p3 + DigitRun(s, p3) - 1)

\* x\^?(\d*) tried at p2, group 1 being s[1 .. p2-1].
MatchAt(s, p2) ==
    IF p2 <= Len(s) /\ s[p2] = "x"
        THEN [matched |-> TRUE,
              g1 |-> SubSeq(s, 1, p2 - 1),
              g2 |-> ExpDigits(s, IF p2 + 1 <= Len(s) /\ s[p2 + 1] = "^"
                                      THEN p2 + 2 ELSE p2 + 1)]
        ELSE [matched |-> FALSE, g1 |-> <<>>, g2 |-> <<>>]

\* re.match(r'([-+]?\d*(?:\.\d+)?)x\^?(\d*)', term): a prefix match.
\* [matched, g1, g2]
MatchTerm(term) == MatchAt(term, NumberEnd(term))

ParsedTerm(f, exponent) == [ok |-> f.ok, coefficient |-> f.val, exponent |-> exponent]

\* Lines 28-35 given the match m of term.
ParseMatched(term, m) ==
    IF m.matched
        THEN ParsedTerm(FloatOf(m.g1), IF m.g2 # <<>> THEN IntOf(m.g2) ELSE 1)
        ELSE ParsedTerm(FloatOf(term), 0)

ParseStripped(term) == ParseMatched(term, MatchTerm(term))

\* Lines 26-34 for one token: [ok, coefficient, exponent]; not ok is the
\* ValueError float() raises.
ParseToken(tok) == ParseStripped(Strip(tok))

\* --------------------------------------------- ordered strategy (2D list)
\* list.insert(i, x), i a 1-based position here.
InsertAt(s, i, x) == SubSeq(s, 1, i - 1) \o <<x>> \o SubSeq(s, i, Len(s))

\* add_term's search with its comparison turned round.
RECURSIVE L_add_term_loop_swapped(_, _, _, _, _)
L_add_term_loop_swapped(terms, coefficient, exponent, left, right) ==
    IF left > right THEN InsertAt(terms, left, <<coefficient, exponent>>)
    ELSE LET mid == (left + right) \div 2
         IN  IF terms[mid][2] = exponent
                 THEN [terms EXCEPT ![mid] = <<@[1] + coefficient, @[2]>>]
             ELSE IF terms[mid][2] > exponent
                 THEN L_add_term_loop_swapped(terms, coefficient, exponent, mid + 1, right)
             ELSE L_add_term_loop_swapped(terms, coefficient, exponent, left, mid - 1)

\* The while/else of add_term (lines 46-58); left, right are 1-based.
RECURSIVE L_add_term_loop(_, _, _, _, _)
L_add_term_loop(terms, coefficient, exponent, left, right) ==
    IF left > right THEN InsertAt(terms, left, <<coefficient, exponent>>)
    ELSE LET mid == (left + right) \div 2
         IN  IF terms[mid][2] = exponent
                 THEN [terms EXCEPT ![mid] = <<@[1] + coefficient, @[2]>>]
             ELSE IF terms[mid][2] < exponent
                 THEN L_add_term_loop(terms, coefficient, exponent, mid + 1, right)
             ELSE L_add_term_loop(terms, coefficient, exponent, left, mid - 1)

L_add_term(terms, coefficient, exponent) ==
    IF coefficient # 0
        THEN L_add_term_loop(terms, coefficient, exponent, 1, Len(terms))
        ELSE terms

\* find_coefficient's search with its comparison turned round.
RECURSIVE L_find_loop_swapped(_, _, _, _)
L_find_loop_swapped(terms, n, left, right) ==
    IF left > right THEN 0
    ELSE LET mid == (left + right) \div 2
         IN  IF terms[mid][2] = n THEN terms[mid][1]
             ELSE IF terms[mid][2] > n THEN L_find_loop_swapped(terms, n, mid + 1, right)
             ELSE L_find_loop_swapped(terms, n, left, mid - 1)

\* The while of find_coefficient (lines 114-124).
RECURSIVE L_find_loop(_, _, _, _)
L_find_loop(terms, n, left, right) ==
    IF left > right THEN 0
    ELSE LET mid == (left + right) \div 2
         IN  IF terms[mid][2] = n THEN terms[mid][1]
             ELSE IF terms[mid][2] < n THEN L_find_loop(terms, n, mid + 1, right)
             ELSE L_find_loop(terms, n, left, mid - 1)

L_find_coefficient(terms, n) ==
    [outcome |-> "ok", val |-> L_find_loop(terms, n, 1, Len(terms))]

\* A power that takes 0 ** 0 for 0.
RECURSIVE Pow_zero(_, _)
Pow_zero(x, exponent) ==
    IF x = 0 THEN 0
    ELSE IF exponent = 0 THEN 1 ELSE x * Pow_zero(x, exponent - 1)

\* x ** exponent on Python ints: 0 ** 0 is 1.
RECURSIVE Pow(_, _)
Pow(x, exponent) == IF exponent = 0 THEN 1 ELSE x * Pow(x, exponent - 1)

\* evaluate (lines 60-70): result accumulated term by term from index k on.
RECURSIVE L_evaluate_loop(_, _, _, _)
L_evaluate_loop(terms, x, k, result) ==
    IF k > Len(terms) THEN result
    ELSE L_evaluate_loop(terms, x, k + 1, result + terms[k][1] * Pow(x, terms[k][2]))

L_evaluate(terms, x) == L_evaluate_loop(terms, x, 1, 0)

\* __str__ (lines 132-134): monomials, reversed, joined by " + ".
L_term_str(t) ==
    IF t[2] > 0 THEN FloatStr(t[1]) \o <<"x", "^">> \o NatStr(t[2]) ELSE FloatStr(t[1])

RECURSIVE Join(_)
Join(strs) ==
    IF strs = <<>> THEN <<>>
    ELSE IF Len(strs) = 1 THEN strs[1]
    ELSE strs[1] \o <<" ", "+", " ">> \o Join(Tail(strs))

Reverse(s) == [i \in 1..Len(s) |-> s[Len(s) + 1 - i]]

L_str(terms) == Join(Reverse([i \in 1..Len(terms) |-> L_term_str(terms[i])]))

\* ------------------------------------------------ unordered strategy (dict)
HasKey(terms, exponent) == \E i \in 1..Len(terms) : terms[i][1] = exponent

KeyIndex(terms, exponent) == CHOOSE i \in 1..Len(terms) : terms[i][1] = exponent

\* add_term that overwrites the stored coefficient instead of adding to it.
D_add_term_overwrite(terms, coefficient, exponent) ==
    IF coefficient # 0
        THEN IF HasKey(terms, exponent)
                 THEN [terms EXCEPT ![KeyIndex(terms, exponent)] = <<@[1], coefficient>>]
                 ELSE Append(terms, <<exponent, coefficient>>)
        ELSE terms

\* add_term (lines 45-49)
D_add_term(terms, coefficient, exponent) ==
    IF coefficient # 0
        THEN IF HasKey(terms, exponent)
                 THEN [terms EXCEPT ![KeyIndex(terms, exponent)] = <<@[1], @[2] + coefficient>>]
                 ELSE Append(terms, <<exponent, coefficient>>)
        ELSE terms

\* find_coefficient (line 86): self.terms[n], KeyError when n is no key.
D_find_coefficient(terms, n) ==
    IF HasKey(terms, n)
        THEN [outcome |-> "ok", val |-> terms[KeyIndex(terms, n)][2]]
        ELSE [outcome |-> "KeyError", val |-> 0]

\* evaluate (lines 58-61)
RECURSIVE D_evaluate_loop(_, _, _, _)
D_evaluate_loop(terms, x, k, result) ==
    IF k > Len(terms) THEN result
    ELSE D_evaluate_loop(terms, x, k + 1, result + terms[k][2] * Pow(x, terms[k][1]))

D_evaluate(terms, x) == D_evaluate_loop(terms, x, 1, 0)

\* __str__ (lines 94-95): monomials in iteration order, joined by " + ".
D_term_str(t) ==
    IF t[1] > 0 THEN FloatStr(t[2]) \o <<"x", "^">> \o NatStr(t[1]) ELSE FloatStr(t[2])

D_str(terms) == Join([i \in 1..Len(terms) |-> D_term_str(terms[i])])

\* ------------------------------------------------------------------- heap
\* SparsePolynomial(): the identifier of a fresh object.
NewId(h) == CHOOSE i \in 1..(Cardinality(DOMAIN h) + 1) :
                i \notin DOMAIN h /\ \A j \in 1..(i - 1) : j \in DOMAIN h

\* h with object id created empty (self.terms = [] / {}).
Alloc(h, id) == [i \in DOMAIN h \cup {id} |-> IF i = id THEN <<>> ELSE h[i]]

\* The objects of h2 that h1 already held: what is left of h2 once the
\* objects created since h1 are dropped with the frame that held them.
Surviving(h1, h2) == [i \in DOMAIN h1 |-> h2[i]]

\* self.add_term(coefficient, exponent) on object self of heap h.
add_term(s, h, self, coefficient, exponent) ==
    [h EXCEPT ![self] = IF s = "list" THEN L_add_term(@, coefficient, exponent)
                        ELSE D_add_term(@, coefficient, exponent)]

IsPoly(v) == v.kind = "poly"
PolyVal(id) == [kind |-> "poly", id |-> id, items |-> <<>>]
ListVal(items) == [kind |-> "list", id |-> 0, items |-> items]

\* The while of the ordered __add__ (lines 86-99): [heap, i, j].
RECURSIVE L_add_merge(_, _, _, _, _, _)
L_add_merge(h, self, other, result, i, j) ==
    IF i <= Len(h[self]) /\ j <= Len(h[other])
        THEN LET coeff1 == h[self][i][1]
                 exp1   == h[self][i][2]
                 coeff2 == h[other][j][1]
                 exp2   == h[other][j][2]
             IN  IF exp1 = exp2
                     THEN L_add_merge(add_term("list", h, result, coeff1 + coeff2, exp1),
                                      self, other, result, i + 1, j + 1)
                 ELSE IF exp1 < exp2
                     THEN L_add_merge(add_term("list", h, result, coeff1, exp1),
                                      self, other, result, i + 1, j)
                 ELSE L_add_merge(add_term("list", h, result, coeff2, exp2),
                                  self, other, result, i, j + 1)
        ELSE [heap |-> h, i |-> i, j |-> j]

\* Ordered __add__ (lines 72-104): [heap, outcome, val], val the object
\* returned.  Line 102 is result += <list>: the class defines no __iadd__,
\* so Python evaluates result.__add__(<list>) and rebinds result to it.
RECURSIVE L_add(_, _, _)
L_add(h, self, other) ==
    IF ~IsPoly(other)
        THEN [heap |-> h, outcome |-> "TypeError", val |-> 0]
        ELSE LET result == NewId(h)
                 m      == L_add_merge(Alloc(h, result), self, other.id, result, 1, 1)
                 rest   == Tail_(m.heap[self], m.i) \o Tail_(m.heap[other.id], m.j)
                 inner  == L_add(m.heap, result, ListVal(rest))
             IN  IF inner.outcome = "ok"
                     THEN inner
                     ELSE [heap |-> Surviving(h, inner.heap),
                           outcome |-> inner.outcome, val |-> 0]

\* One for-loop of the unordered __add__ (lines 73-74, 75-76) from item k on.
RECURSIVE D_add_loop(_, _, _, _)
D_add_loop(h, src, result, k) ==
    IF k > Len(h[src]) THEN h
    ELSE D_add_loop(add_term("dict", h, result, h[src][k][2], h[src][k][1]),
                    src, result, k + 1)

\* __add__ that accumulates other into self and returns self.
D_add_inplace(h, self, other) ==
    IF ~IsPoly(other)
        THEN [heap |-> h, outcome |-> "TypeError", val |-> 0]
        ELSE [heap |-> D_add_loop(h, other.id, self, 1), outcome |-> "ok", val |-> self]

\* Unordered __add__ (lines 63-77).
D_add(h, self, other) ==
    IF ~IsPoly(other)
        THEN [heap |-> h, outcome |-> "TypeError", val |-> 0]
        ELSE LET result == NewId(h)
                 h1     == D_add_loop(Alloc(h, result), self, result, 1)
                 h2     == D_add_loop(h1, other.id, result, 1)
             IN  [heap |-> h2, outcome |-> "ok", val |-> result]

add(s, h, self, other) == IF s = "list" THEN L_add(h, self, other) ELSE D_add(h, self, other)

\* parse_polynomial_string's for loop from token k on: [heap, outcome];
\* parse_step is its body on the parsed token t.
RECURSIVE parse_loop(_, _, _, _, _)
RECURSIVE parse_step(_, _, _, _, _, _)
parse_step(s, h, self, toks, k, t) ==
    IF ~t.ok THEN [heap |-> h, outcome |-> "ValueError"]
    ELSE parse_loop(s, add_term(s, h, self, t.coefficient, t.exponent), self, toks, k + 1)

parse_loop(s, h, self, toks, k) ==
    IF k > Len(toks) THEN [heap |-> h, outcome |-> "ok"]
    ELSE parse_step(s, h, self, toks, k, ParseToken(toks[k]))

parse_polynomial_string(s, h, self, polynomial_str) ==
    parse_loop(s, h, self, SplitBeforeSigns(RemoveSpaces(polynomial_str)), 1)

\* __init__ once parse_polynomial_string ended as p: an exception leaves no
\* object behind.
constructed(h, self, p) ==
    IF p.outcome = "ok"
        THEN [heap |-> p.heap, outcome |-> "ok", val |-> self]
        ELSE [heap |-> Surviving(h, p.heap), outcome |-> p.outcome, val |-> 0]

\* __init__ on the fresh object self.
construct_at(s, h, self, polynomial_str) ==
    IF polynomial_str = <<>>
        THEN [heap |-> Alloc(h, self), outcome |-> "ok", val |-> self]
        ELSE constructed(h, self,
                 parse_polynomial_string(s, Alloc(h, self), self, polynomial_str))

\* SparsePolynomial(polynomial_str): [heap, outcome, val].
construct(s, h, polynomial_str) == construct_at(s, h, NewId(h), polynomial_str)

\* ---------------------------------------------------------- input texts
SignParts == {<<>>, <<"+">>, <<"-">>}
CoefParts == {<<>>, <<"0">>, <<"2">>, <<"1", ".", "5">>}
VarParts == {<<>>, <<"x">>, <<"x", "^", "2">>}

\* [sign][coefficient][x[^exponent]], well formed or not.
Monomials == {sg \o cf \o vp : sg \in SignParts, cf \in CoefParts, vp \in VarParts}

\* A further monomial, set off as in "3x + 10".
Followers == {<<" ", sg, " ">> \o cf \o vp :
                 sg \in {"+", "-"}, cf \in CoefParts, vp \in VarParts}

RECURSIVE TextsOf(_)
TextsOf(n) ==
    IF n = 1 THEN Monomials
    ELSE {t \o f : t \in TextsOf(n - 1), f \in Followers}

\* polynomial_str1 of the example test.
ExampleText ==
    <<"2", ".", "1", "x", "^", "8", " ", "+", " ", "3", "0", "x", "^", "9", " ",
      "+", " ", "3", "x", " ", "+", " ", "1", "0", " ", "+", " ", "1", "0", "x",
      "^", "9", " ", "+", " ", "1", " ", "-", " ", "1", "0">>

\* The exponents the example test's text holds.
ExampleExps == {0, 1, 8, 9}

Texts == UNION {TextsOf(n) : n \in 1..MaxTokens} \cup {ExampleText}

\* ------------------------------------------------------------------ state
VARIABLES
    strategy,   \* "list": with_2d_list.py, "dict": with_dict.py
    heap,       \* object id -> terms container
    ref,        \* program variable -> object id
    ret,        \* the last call and what it returned or raised (a query's arguments too)
    sums,       \* history: per variable a, b, exponent -> sum of the coefficients passed to add_term
    steps,      \* number of add_term / add calls made
    pc,         \* "ops": direct calls; "start", "parsed", "printed", "reparsed", "failed": the parse script
    text,       \* the text to construct from
    out         \* the text str() produced

vars == <<strategy, heap, ref, ret, sums, steps, pc, text, out>>

Strategies == {"list", "dict"}

Ret(op, self, other, coefficient, exponent, x, outcome, val) ==
    [op |-> op, self |-> self, other |-> other, coefficient |-> coefficient,
     exponent |-> exponent, x |-> x, outcome |-> outcome, val |-> val]

NoTotals == [e \in {} |-> 0]

\* The sum of the coefficients passed with exponent e, one more call added.
Tally(f, coefficient, exponent) ==
    IF exponent \in DOMAIN f THEN [f EXCEPT ![exponent] = @ + coefficient]
    ELSE [e \in DOMAIN f \cup {exponent} |-> IF e = exponent THEN coefficient ELSE f[e]]

Total(f, e) == IF e \in DOMAIN f THEN f[e] ELSE 0

TallyOne(f, t) == Tally(f, t.coefficient, t.exponent)

RECURSIVE TallyTokens(_, _, _)
TallyTokens(f, toks, k) ==
    IF k > Len(toks) THEN f
    ELSE TallyTokens(TallyOne(f, ParseToken(toks[k])), toks, k + 1)

\* The objects the program can still reach.
Reachable(h, rf) == [i \in {rf[v] : v \in DOMAIN rf} |-> h[i]]

Bind(rf, v, id) == [u \in DOMAIN rf \cup {v} |-> IF u = v THEN id ELSE rf[u]]

TermsOf(v) == heap[ref[v]]

\* Exponent and coefficient of a stored term, whichever the container.
ExpOf(s, t) == IF s = "list" THEN t[2] ELSE t[1]
CoefOf(s, t) == IF s = "list" THEN t[1] ELSE t[2]

StoredExps(s, terms) == {ExpOf(s, terms[i]) : i \in 1..Len(terms)}

\* Two empty polynomials a and b, driven by direct calls.
InitOps ==
    /\ strategy \in Strategies
    /\ heap = [i \in {1, 2} |-> <<>>]
    /\ ref = [v \in {"a", "b"} |-> IF v = "a" THEN 1 ELSE 2]
    /\ ret = Ret("init", "", "", 0, 0, 0, "ok", 0)
    /\ sums = [v \in {"a", "b"} |-> NoTotals]
    /\ steps = 0
    /\ pc = "ops"
    /\ text = <<>>
    /\ out = <<>>

\* The script of the example test: construct from a text, query, print.
InitParse ==
    /\ strategy \in Strategies
    /\ heap = [i \in {} |-> <<>>]
    /\ ref = [v \in {} |-> 0]
    /\ ret = Ret("init", "", "", 0, 0, 0, "ok", 0)
    /\ sums = [v \in {"a", "b"} |-> NoTotals]
    /\ steps = 0
    /\ pc = "start"
    /\ text \in Texts
    /\ out = <<>>

\* A query changes nothing but ret, which the next call overwrites: every
\* state a run with queries in its middle reaches is reached by the run
\* without them, so a run is followed up to its first query.
QueryOps == {"find_coefficient", "evaluate"}

Live == ret.op \notin QueryOps

\* v.add_term(coefficient, exponent)
AddTerm(v, coefficient, exponent) ==
    /\ pc = "ops"
    /\ Live
    /\ steps < MaxSteps
    /\ v \in DOMAIN ref
    /\ heap' = add_term(strategy, heap, ref[v], coefficient, exponent)
    /\ sums' = IF v \in DOMAIN sums
                   THEN [sums EXCEPT ![v] = Tally(@, coefficient, exponent)]
                   ELSE sums
    /\ ret' = Ret("add_term", v, "", 0, 0, 0, "ok", 0)
    /\ steps' = steps + 1
    /\ UNCHANGED <<strategy, ref, pc, text, out>>

\* r = v + w
Add(v, w) ==
    /\ pc = "ops"
    /\ Live
    /\ steps < MaxSteps
    /\ v \in DOMAIN ref
    /\ w \in DOMAIN ref
    /\ LET res == add(strategy, heap, ref[v], PolyVal(ref[w]))
           rf  == IF res.outcome = "ok" THEN Bind(ref, "r", res.val) ELSE ref
       IN  /\ ref' = rf
           /\ heap' = Reachable(res.heap, rf)
           /\ ret' = Ret("add", v, w, 0, 0, 0, res.outcome, res.val)
    /\ steps' = steps + 1
    /\ UNCHANGED <<strategy, sums, pc, text, out>>

\* v.find_coefficient(n)
FindCoefficient(v, n) ==
    /\ pc \in {"ops", "parsed"}
    /\ Live
    /\ v \in DOMAIN ref
    /\ LET res == IF strategy = "list" THEN L_find_coefficient(TermsOf(v), n)
                  ELSE D_find_coefficient(TermsOf(v), n)
       IN  ret' = Ret("find_coefficient", v, "", 0, n, 0, res.outcome, res.val)
    /\ UNCHANGED <<strategy, heap, ref, sums, steps, pc, text, out>>

\* v.evaluate(x)
Evaluate(v, x) ==
    /\ pc \in {"ops", "parsed"}
    /\ Live
    /\ v \in DOMAIN ref
    /\ LET val == IF strategy = "list" THEN L_evaluate(TermsOf(v), x)
                  ELSE D_evaluate(TermsOf(v), x)
       IN  ret' = Ret("evaluate", v, "", 0, 0, x, "ok", val)
    /\ UNCHANGED <<strategy, heap, ref, sums, steps, pc, text, out>>

\* The binding of v once SparsePolynomial(src) ended as res.
Constructed(v, src, to, res) ==
    /\ ref' = IF res.outcome = "ok" THEN Bind(ref, v, res.val) ELSE ref
    /\ heap' = Reachable(res.heap, IF res.outcome = "ok" THEN Bind(ref, v, res.val) ELSE ref)
    /\ ret' = Ret("construct", v, "", 0, 0, 0, res.outcome, res.val)
    /\ pc' = IF res.outcome = "ok" THEN to ELSE "failed"
    /\ sums' = IF res.outcome = "ok"
                   THEN [sums EXCEPT ![v] =
                            IF src = <<>> THEN NoTotals
                            ELSE TallyTokens(NoTotals, SplitBeforeSigns(RemoveSpaces(src)), 1)]
                   ELSE sums

\* v = SparsePolynomial(src), the step of the script that moves from -> to.
ConstructFrom(v, src, from, to) ==
    /\ pc = from
    /\ Constructed(v, src, to, construct(strategy, heap, src))
    /\ UNCHANGED <<strategy, steps, text, out>>

\* a = SparsePolynomial(text)
Construct == ConstructFrom("a", text, "start", "parsed")

\* out = str(a)
Str ==
    /\ pc = "parsed"
    /\ Live
    /\ out' = IF strategy = "list" THEN L_str(TermsOf("a")) ELSE D_str(TermsOf("a"))
    /\ ret' = Ret("str", "a", "", 0, 0, 0, "ok", 0)
    /\ pc' = "printed"
    /\ UNCHANGED <<strategy, heap, ref, sums, steps, text>>

\* b = SparsePolynomial(out)
Reconstruct == ConstructFrom("b", out, "printed", "reparsed")

NextOps ==
    \/ \E v \in Vars, c \in Coefs, e \in Exps : AddTerm(v, c, e)
    \/ \E v \in Operands, w \in Operands : Add(v, w)
    \/ \E v \in Vars, n \in Exps : FindCoefficient(v, n)
    \/ \E v \in Vars, x \in Points : Evaluate(v, x)

NextParse ==
    \/ Construct
    \/ \E n \in Exps \cup ExampleExps : FindCoefficient("a", n)
    \/ \E x \in Points : Evaluate("a", x)
    \/ Str
    \/ Reconstruct

\* Direct calls on two polynomials.
SpecOps == InitOps /\ [][NextOps]_vars

\* The parse script.
SpecParse == InitParse /\ [][NextParse]_vars

Init == InitOps \/ InitParse

Next == NextOps \/ NextParse

\* Either driver.
Spec == Init /\ [][Next]_vars

\* ================================================================ claims
\* The multiset of (exponent, coefficient) pairs a container holds.
PairAt(s, terms, i) == <<ExpOf(s, terms[i]), CoefOf(s, terms[i])>>

PairBag(s, terms) ==
    LET pairs == {PairAt(s, terms, i) : i \in 1..Len(terms)}
    IN  [p \in pairs |-> Cardinality({i \in 1..Len(terms) : PairAt(s, terms, i) = p})]

\* The coefficient stored with exponent e, 0 when none is.
RECURSIVE StoredCoef(_, _, _, _)
StoredCoef(s, terms, e, k) ==
    IF k > Len(terms) THEN 0
    ELSE (IF ExpOf(s, terms[k]) = e THEN CoefOf(s, terms[k]) ELSE 0)
             + StoredCoef(s, terms, e, k + 1)

NoZeroStored(s, terms) == \A i \in 1..Len(terms) : CoefOf(s, terms[i]) # 0

\* C1: in the ordered strategy a + b completes without error and returns a
\* new polynomial holding the two-pointer merge of both ascending
\* sequences: equal exponents summed, otherwise the smaller exponent's term
\* emitted, the remainder of the longer sequence appended unchanged.
RECURSIVE Merged(_, _)
Merged(s, t) ==
    IF s = <<>> THEN t
    ELSE IF t = <<>> THEN s
    ELSE IF s[1][2] = t[1][2]
        THEN <<<<s[1][1] + t[1][1], s[1][2]>>>> \o Merged(Tail(s), Tail(t))
    ELSE IF s[1][2] < t[1][2] THEN <<s[1]>> \o Merged(Tail(s), t)
    ELSE <<t[1]>> \o Merged(s, Tail(t))

C1_AddReturnsMerge ==
    (strategy = "list" /\ ret.op = "add") =>
        /\ ret.outcome = "ok"
        /\ ret.val \in DOMAIN heap
        /\ ret.val \notin {ref[ret.self], ref[ret.other]}
        /\ heap[ret.val] = Merged(TermsOf(ret.self), TermsOf(ret.other))

\* C2: after any sequence of add_term calls, in every intermediate state,
\* the ordered strategy's list is strictly ascending by exponent and the
\* unordered strategy's stored exponents are pairwise distinct.
Ascending(terms) == \A i \in 1..(Len(terms) - 1) : terms[i][2] < terms[i + 1][2]

DistinctKeys(terms) ==
    \A i \in 1..Len(terms) : \A j \in 1..Len(terms) : terms[i][1] = terms[j][1] => i = j

C2_ExponentsOrderedDistinct ==
    \A v \in DOMAIN ref :
        IF strategy = "list" THEN Ascending(TermsOf(v)) ELSE DistinctKeys(TermsOf(v))

C2_Witness ==
    /\ strategy = "list"
    /\ ret.op = "add_term"
    /\ Len(TermsOf("a")) = MaxExp + 1
    /\ steps = MaxExp + 1

\* C3: in the ordered strategy find_coefficient(e) returns the sum of all
\* coefficients passed to add_term with exponent e, directly or by parsing,
\* and returns 0 without failing when no term with exponent e is stored; on
\* the example text find_coefficient(9) is 40 and find_coefficient(0) is 1.
C3_FindCoefficientIsSum ==
    (strategy = "list" /\ ret.op = "find_coefficient" /\ ret.self \in DOMAIN sums) =>
        /\ ret.outcome = "ok"
        /\ ret.val = Total(sums[ret.self], ret.exponent)
        /\ ret.exponent \notin StoredExps("list", TermsOf(ret.self)) => ret.val = 0
        /\ (text = ExampleText /\ ret.exponent = 9) => ret.val = 40 * Scale
        /\ (text = ExampleText /\ ret.exponent = 0) => ret.val = 1 * Scale

C3_Witness ==
    /\ strategy = "list"
    /\ text = ExampleText
    /\ ret.op = "find_coefficient"
    /\ ret.exponent = 9
    /\ ret.val = 40 * Scale

\* C4: in every state reached by add_term calls, either strategy, no
\* stored term has a coefficient equal to zero.
C4_NoZeroCoefficient ==
    \A v \in DOMAIN ref : NoZeroStored(strategy, TermsOf(v))

\* C5: in the unordered strategy a + b and b + a hold the same multiset of
\* (exponent, coefficient) pairs, also when an operand stores a term whose
\* accumulated coefficient is 0.
C5_AddCommutes ==
    (strategy = "dict" /\ ret.op = "add") =>
        LET swapped == D_add(heap, ref[ret.other], PolyVal(ref[ret.self]))
        IN  /\ ret.outcome = "ok"
            /\ swapped.outcome = "ok"
            /\ PairBag("dict", heap[ret.val]) = PairBag("dict", swapped.heap[swapped.val])

C5_Witness ==
    /\ strategy = "dict"
    /\ ret.op = "add"
    /\ ret.self = "a"
    /\ ret.other = "b"
    /\ TermsOf("a") # <<>>
    /\ TermsOf("b") # <<>>
    /\ ~NoZeroStored("dict", TermsOf("r"))

\* C6: evaluate(x) is the sum over the stored terms of coefficient *
\* x^exponent; evaluate(0) is the coefficient stored with exponent 0 (0
\* when none), evaluate(1) the sum of all stored coefficients, and the
\* empty polynomial evaluates to 0 at every x.
RECURSIVE Power(_, _)
Power(x, n) ==
    IF n = 0 THEN 1
    ELSE IF n % 2 = 0 THEN Power(x * x, n \div 2)
    ELSE x * Power(x * x, n \div 2)

RECURSIVE SumFrom(_, _, _, _)
SumFrom(s, terms, x, k) ==
    IF k = 0 THEN 0
    ELSE SumFrom(s, terms, x, k - 1) + Power(x, ExpOf(s, terms[k])) * CoefOf(s, terms[k])

C6_EvaluateIsSum ==
    ret.op = "evaluate" =>
        LET terms == TermsOf(ret.self)
        IN  /\ ret.val = SumFrom(strategy, terms, ret.x, Len(terms))
            /\ ret.x = 0 => ret.val = StoredCoef(strategy, terms, 0, 1)
            /\ ret.x = 1 => ret.val = SumFrom(strategy, terms, 1, Len(terms))
            /\ terms = <<>> => ret.val = 0

C6_Witness ==
    /\ ret.op = "evaluate"
    /\ ret.x = 0
    /\ Len(TermsOf(ret.self)) >= 2
    /\ ret.val # 0

\* C7: a monomial with x and no coefficient digits ("x", "+x", "-x",
\* "x^2", "-x^2") is accepted: it yields coefficient 1 with the sign
\* honoured and exponent 1 when no ^exponent is given, and no error is
\* raised.
SignedUnit(t) == IF t[1] = "-" THEN -Scale ELSE Scale

BareExponent(t) == IF t[Len(t)] = "x" THEN 1 ELSE DigitVal(t[Len(t)])

BareMonomials == {sg \o vp : sg \in SignParts, vp \in VarParts \ {<<>>}}

C7_BareMonomialAccepted ==
    (text \in BareMonomials /\ ret.op = "construct" /\ ret.self = "a") =>
        /\ ret.outcome = "ok"
        /\ PairBag(strategy, TermsOf("a"))
               = PairBag("dict", <<<<BareExponent(text), SignedUnit(text)>>>>)

\* C8: a polynomial freshly parsed from a valid text, coefficients of
\* either sign and none stored as zero, formats to a string from which
\* construction succeeds and yields the same multiset of (exponent,
\* coefficient) pairs.
C8_RoundTrip ==
    (/\ strategy = "list"
     /\ ret.op = "construct"
     /\ ret.self = "b"
     /\ NoZeroStored("list", TermsOf("a"))) =>
        /\ ret.outcome = "ok"
        /\ PairBag("list", TermsOf("b")) = PairBag("list", TermsOf("a"))

\* C9: add mutates neither operand, whether it returns or fails, and a
\* returned polynomial owns its storage: it is a new object, and a later
\* add_term on it changes neither operand.
C9_AddLeavesOperands ==
    [][/\ ret'.op = "add" =>
            /\ \A v \in Operands : ref'[v] = ref[v] /\ heap'[ref'[v]] = heap[ref[v]]
            /\ ret'.outcome = "ok" =>
                   /\ ref'["r"] = ret'.val
                   /\ ret'.val \notin {ref[v] : v \in Operands}
       /\ (ret'.op = "add_term" /\ ret'.self = "r") =>
            \A v \in Operands : ref'[v] = ref[v] /\ heap'[ref'[v]] = heap[ref[v]]]_vars

C9_Witness ==
    /\ strategy = "dict"
    /\ ret.op = "add_term"
    /\ ret.self = "r"
    /\ TermsOf("a") # <<>>
    /\ TermsOf("r") # TermsOf("a")

\* C10: in the unordered strategy adding the empty polynomial, on either
\* side, returns a polynomial with exactly the stored (exponent,
\* coefficient) pairs of the other operand.
C10_EmptyIsIdentity ==
    (strategy = "dict" /\ ret.op = "add" /\ ret.outcome = "ok") =>
        /\ TermsOf(ret.other) = <<>> =>
               PairBag("dict", heap[ret.val]) = PairBag("dict", TermsOf(ret.self))
        /\ TermsOf(ret.self) = <<>> =>
               PairBag("dict", heap[ret.val]) = PairBag("dict", TermsOf(ret.other))

====
